---- MODULE Spec2Model ----
(***************************************************************************)
(* Model of bcwrapper.py: the BcWrapper client of the Business Central     *)
(* OData web services.                                                     *)
(*                                                                         *)
(* get_table and get_ats are pure, sequential Python methods; each is one  *)
(* action here, computed by operators that follow the code line by line.   *)
(* A Python dict is a function whose DOMAIN is its key set, a list is a    *)
(* sequence, an argument that may be None is an optional (None / Some(v)). *)
(* A pandas DataFrame is a record [columns, index, rows]: the ordered      *)
(* column labels, the names of the index levels (<<>> for the default      *)
(* positional index) and the rows in order, each row a function from the   *)
(* labels it holds a value for to that value: a cell that is NaN is a      *)
(* label missing from the row.                                             *)
(***************************************************************************)
EXTENDS Integers, Sequences, FiniteSets, TLC

VARIABLES
    remote,          \* the service's data: table name -> chain of page bodies
    self,            \* the BcWrapper instance: url, auth, verbose
    defaultOptions,  \* the dict object bound once to get_table's options={}
    used,            \* whether the wrapper had served a call before the last one
    call,            \* the arguments of the last call
    after,           \* the caller's argument objects once that call has ended
    trace,           \* the HTTP requests and responses of the last call, in order
    data,            \* get_table's local `data` when the page loop was left
    result           \* what the last call returned or raised

vars == <<remote, self, defaultOptions, used, call, after, trace, data, result>>

-----------------------------------------------------------------------------
(* Bounds of the model *)

MaxPages == 2    \* pages in the chain the service holds for a table
MaxRecs == 1     \* records on one page
MaxLines == 4    \* lines over the four tables get_ats reads

-----------------------------------------------------------------------------
(* Python values *)

None == <<>>
Some(x) == <<x>>
The(o) == o[1]

\* an assignment to a local name: the value is computed once, then the
\* statements after it run with the name bound to it
With(value, Rest(_)) == CHOOSE out \in {Rest(v) : v \in {value}} : TRUE

EmptyDict == [k \in {} |-> <<>>]

RECURSIVE DictOf(_)
\* a dict literal: a key written twice keeps the value written last
DictOf(items) ==
    IF items = <<>> THEN EmptyDict
    ELSE LET last == items[Len(items)]
         IN (last[1] :> last[2]) @@ DictOf(SubSeq(items, 1, Len(items) - 1))

Range(s) == {s[i] : i \in 1..Len(s)}

NoExc == [type |-> "", args |-> <<>>]
KeyError(key) == [type |-> "KeyError", args |-> <<key>>]
TypeError(msg) == [type |-> "TypeError", args |-> <<msg>>]
ValueError(msg) == [type |-> "ValueError", args |-> <<msg>>]

-----------------------------------------------------------------------------
(* pandas *)

EmptyFrame == [columns |-> <<>>, index |-> <<>>, rows |-> <<>>]

\* the property order of the entities the service sends
FieldOrder == <<"Item_No", "Location_Code", "Quantity", "Qty_Outstanding",
                "number", "locationCode", "outstandingQuantity">>

\* the labels whose cells hold numbers
NumericLabels == {"Quantity", "Qty_Outstanding", "outstandingQuantity",
                  "PO", "OH", "SO", "WSHIP", "ATSell", "ATShip"}

\* pd.DataFrame.from_records(records): one row per record, in order
from_records(records) ==
    [columns |-> SelectSeq(FieldOrder,
                     LAMBDA f : \E i \in 1..Len(records) : f \in DOMAIN records[i]),
     index |-> <<>>,
     rows |-> records]

\* a variant of append that keeps the other frame alone, as
\* data = pd.DataFrame.from_records(...) in the page loop would
append_overwrite(df, other) ==
    [columns |-> other.columns, index |-> df.index, rows |-> other.rows]

\* data.append(other): other's rows after data's rows, the union of the columns
append(df, other) ==
    [columns |-> df.columns \o
                 SelectSeq(other.columns, LAMBDA c : c \notin Range(df.columns)),
     index |-> df.index,
     rows |-> df.rows \o other.rows]

\* data[(data.isnull()) | (data == '')] = np.nan
blank_to_nan(df) ==
    [df EXCEPT !.rows =
        [i \in 1..Len(df.rows) |->
            LET row == df.rows[i]
            IN [c \in {k \in DOMAIN row : k \in NumericLabels \/ row[k] # ""}
                    |-> row[c]]]]

\* a variant of set_index that keeps, of the rows that share a key, the last
set_index_last_wins(df, keys) ==
    IF \E i \in 1..Len(keys) : keys[i] \notin Range(df.columns)
    THEN [exc |-> KeyError("None of the keys are in the columns"), frame |-> df]
    ELSE LET key(row) == [i \in 1..Len(keys) |->
                            IF keys[i] \in DOMAIN row THEN row[keys[i]] ELSE "NaN"]
             last == {i \in 1..Len(df.rows) :
                        \A j \in (i + 1)..Len(df.rows) : key(df.rows[j]) # key(df.rows[i])}
             nth(n) == CHOOSE i \in last : Cardinality({j \in last : j <= i}) = n
         IN [exc |-> NoExc,
             frame |-> [columns |-> SelectSeq(df.columns, LAMBDA c : c \notin Range(keys)),
                        index |-> keys,
                        rows |-> [n \in 1..Cardinality(last) |-> df.rows[nth(n)]]]]

\* data.set_index(keys, inplace=True): the key columns become the index; a key
\* that is no column raises KeyError; every row is kept (verify_integrity=False)
set_index(df, keys) ==
    IF \E i \in 1..Len(keys) : keys[i] \notin Range(df.columns)
    THEN [exc |-> KeyError("None of the keys are in the columns"), frame |-> df]
    ELSE [exc |-> NoExc,
          frame |-> [df EXCEPT !.index = keys,
                               !.columns = SelectSeq(df.columns,
                                             LAMBDA c : c \notin Range(keys))]]

\* data[labels]: the listed columns in the listed order; a label that is no
\* column raises KeyError
getitem(df, labels) ==
    IF \E i \in 1..Len(labels) : labels[i] \notin Range(df.columns)
    THEN [exc |-> KeyError("not in index"), frame |-> df]
    ELSE [exc |-> NoExc,
          frame |-> [columns |-> labels,
                     index |-> df.index,
                     rows |-> [i \in 1..Len(df.rows) |->
                        LET row == df.rows[i]
                        IN [c \in DOMAIN row \cap (Range(labels) \cup Range(df.index))
                                |-> row[c]]]]]

\* pd.DataFrame(columns=labels)
empty_with_columns(labels) == [columns |-> labels, index |-> <<>>, rows |-> <<>>]

-----------------------------------------------------------------------------
(* The module's constants and the wrapper *)

ODATA_HEADER ==
    DictOf(<< <<"OData-Version", "4.0">>,
              <<"Accept", "application/json">>,
              <<"Content-Type", "application/json; charset=utf-8">>,
              <<"Prefer", "odata.maxpagesize=100">>,
              <<"Prefer", "odata.include-annotations=OData.Community.Display.V1.FormattedValue">> >>)

ODATA_ROOT == "https://api.businesscentral.dynamics.com/v1.0/"

HTTPBasicAuth(user, password) == [username |-> user, password |-> password]

\* BcWrapper.__init__
BcWrapper(tenant, company, user, password, verbose) ==
    [url |-> ODATA_ROOT \o tenant \o "/ODataV4/Company('" \o company \o "')/",
     auth |-> HTTPBasicAuth(user, password),
     verbose |-> verbose]

Wrapper == BcWrapper("tenant", "CRONUS US", "user", "password", FALSE)

-----------------------------------------------------------------------------
(* The remote service, as requests.get(...).json() sees it *)

\* the address of page i of a table: the table itself, then opaque cursors
PageUrl(table, i) ==
    IF i = 1 THEN Wrapper.url \o table
    ELSE Wrapper.url \o table \o "?$skiptoken=" \o ToString(i)

NotFound == [error |-> [code |-> "BadRequest_NotFound",
                        message |-> "Resource not found"]]

\* the JSON body answered to a request: the page at the requested address,
\* with the cursor of the next page when the chain goes on
requests_get(rem, req) ==
    With(UNION {{<<t, i>> : i \in {j \in 1..Len(rem[t]) : PageUrl(t, j) = req.url}} :
                    t \in DOMAIN rem}, LAMBDA held :
    IF held = {} THEN NotFound
    ELSE With(CHOOSE p \in held : TRUE, LAMBDA p :
         IF p[2] < Len(rem[p[1]])
         THEN ("@odata.nextLink" :> PageUrl(p[1], p[2] + 1)) @@ rem[p[1]][p[2]]
         ELSE rem[p[1]][p[2]]))

Request(url, auth, headers, params) ==
    [url |-> url, auth |-> auth, headers |-> headers, params |-> params]

RequestEvent(req) == [kind |-> "request", payload |-> req]
ResponseEvent(response) == [kind |-> "response", payload |-> response]

-----------------------------------------------------------------------------
(* The module-level helpers *)

has_more_pages(response) == "@odata.nextLink" \in DOMAIN response

get_next_page(response) == response["@odata.nextLink"]

is_valid(response) == "value" \in DOMAIN response

get_data(response) == response["value"]

-----------------------------------------------------------------------------
(* get_table *)

\* requests.get(query, auth=self.auth, headers=ODATA_HEADER, params=options)
first_request(slf, query, options) ==
    Request(query, slf.auth, ODATA_HEADER, Some(options))

\* a variant of next_request that sends the cursor without the credentials
next_request_no_auth(slf, response) ==
    Request(get_next_page(response), HTTPBasicAuth("", ""), ODATA_HEADER, None)

\* requests.get(get_next_page(response), auth=self.auth, headers=ODATA_HEADER)
next_request(slf, response) ==
    Request(get_next_page(response), slf.auth, ODATA_HEADER, None)

RECURSIVE fetch_pages(_, _, _)
\* while has_more_pages(response): fetch the cursor, append its records.
\* st holds the locals response and data, the trace so far and the exception
\* raised, if any; get_data raises KeyError on a body without 'value'
fetch_pages(rem, slf, st) ==
    IF ~has_more_pages(st.response) THEN st
    ELSE With(next_request(slf, st.response), LAMBDA req :
         With(requests_get(rem, req), LAMBDA response :
         With(st.trace \o <<RequestEvent(req), ResponseEvent(response)>>, LAMBDA tr :
         IF "value" \in DOMAIN response
         THEN With([response |-> response,
                    data |-> append(st.data, from_records(get_data(response))),
                    trace |-> tr,
                    exc |-> NoExc], LAMBDA next : fetch_pages(rem, slf, next))
         ELSE [response |-> response, data |-> st.data, trace |-> tr,
               exc |-> KeyError("value")])))

\* a variant of error_of that reports the code without the message
error_of_code_only(response) ==
    [type |-> "Exception", args |-> <<response["error"]["code"]>>]

\* raise Exception("%s\t%s" % (response["error"]["code"], response["error"]["message"]))
error_of(response) ==
    IF "error" \notin DOMAIN response THEN KeyError("error")
    ELSE IF "code" \notin DOMAIN response["error"] THEN KeyError("code")
    ELSE IF "message" \notin DOMAIN response["error"] THEN KeyError("message")
    ELSE [type |-> "Exception",
          args |-> <<response["error"]["code"] \o "\t" \o response["error"]["message"]>>]

\* a variant of project_fields that takes '$fields' out of the mapping, as
\* options.pop('$fields') would
project_fields_pop(df, options) ==
    LET rest == [k \in DOMAIN options \ {"$fields"} |-> options[k]]
    IN IF "$fields" \in DOMAIN options
       THEN IF Len(df.rows) > 0
            THEN getitem(df, options["$fields"]) @@ [options |-> rest]
            ELSE [exc |-> NoExc, frame |-> empty_with_columns(options["$fields"]),
                  options |-> rest]
       ELSE [exc |-> NoExc, frame |-> df, options |-> options]

\* if '$fields' in options: data = data[options['$fields']] if len(data)>0
\*                          else pd.DataFrame(columns=options['$fields'])
\* the options mapping is read, never written
project_fields(df, options) ==
    IF "$fields" \in DOMAIN options
    THEN IF Len(df.rows) > 0
         THEN getitem(df, options["$fields"]) @@ [options |-> options]
         ELSE [exc |-> NoExc, frame |-> empty_with_columns(options["$fields"]),
               options |-> options]
    ELSE [exc |-> NoExc, frame |-> df, options |-> options]

NoReport == [columns |-> <<>>, skus |-> {}, cell |-> EmptyDict]

Returned(frame) == [status |-> "return", frame |-> frame, report |-> NoReport, exc |-> NoExc]
Raised(exc) == [status |-> "raise", frame |-> EmptyFrame, report |-> NoReport, exc |-> exc]

\* BcWrapper.get_table(table, options, table_index): the outcome, the HTTP
\* trace, the local data at the end of the page loop, and the options mapping
\* as the call leaves it
get_table(rem, slf, table, options, table_index) ==
    With(slf.url \o table, LAMBDA query :
    With(first_request(slf, query, options), LAMBDA req :
    With(requests_get(rem, req), LAMBDA response :
    With(<<RequestEvent(req), ResponseEvent(response)>>, LAMBDA tr :
    IF is_valid(response)
    THEN With([response |-> response,
               data |-> from_records(get_data(response)),
               trace |-> tr,
               exc |-> NoExc], LAMBDA first :
         With(fetch_pages(rem, slf, first), LAMBDA st :
         IF st.exc # NoExc
         THEN [out |-> Raised(st.exc), trace |-> st.trace,
               data |-> st.data, options |-> options]
         ELSE With(blank_to_nan(st.data), LAMBDA cleaned :
              With(IF table_index # None
                   THEN set_index(cleaned, The(table_index))
                   ELSE [exc |-> NoExc, frame |-> cleaned], LAMBDA keyed :
              IF keyed.exc # NoExc
              THEN [out |-> Raised(keyed.exc), trace |-> st.trace,
                    data |-> st.data, options |-> options]
              ELSE With(project_fields(keyed.frame, options), LAMBDA projected :
                   IF projected.exc # NoExc
                   THEN [out |-> Raised(projected.exc), trace |-> st.trace,
                         data |-> st.data, options |-> projected.options]
                   ELSE [out |-> Returned(projected.frame), trace |-> st.trace,
                         data |-> st.data, options |-> projected.options])))))
    ELSE [out |-> Raised(error_of(response)), trace |-> tr,
          data |-> EmptyFrame, options |-> options]))))

-----------------------------------------------------------------------------
(* The four role-specific fetches of get_ats *)

\* .set_axis(labels, axis='columns', inplace=False): a new frame whose columns
\* are relabelled by position; a list of another length raises ValueError
set_axis(df, labels) ==
    IF Len(labels) # Len(df.columns)
    THEN [exc |-> ValueError("Length mismatch"), frame |-> df]
    ELSE [exc |-> NoExc,
          frame |-> [columns |-> labels,
                     index |-> df.index,
                     rows |-> [i \in 1..Len(df.rows) |->
                        LET row == df.rows[i]
                            held == {j \in 1..Len(labels) : df.columns[j] \in DOMAIN row}
                        IN [c \in {labels[j] : j \in held} |->
                               row[df.columns[CHOOSE j \in held : labels[j] = c]]]]]]

\* self.get_table(table=table, options=options).set_axis(labels, ...)
fetch_lines(rem, slf, table, options, labels) ==
    With(get_table(rem, slf, table, options, None), LAMBDA r :
    IF r.out.status = "raise" THEN [out |-> r.out, trace |-> r.trace]
    ELSE With(r.out.frame, LAMBDA fetched :
         With(set_axis(fetched, labels), LAMBDA s :
         IF s.exc # NoExc THEN [out |-> Raised(s.exc), trace |-> r.trace]
         ELSE [out |-> Returned(s.frame), trace |-> r.trace])))

get_purchases(rem, slf, po_table) ==
    fetch_lines(rem, slf, po_table,
        DictOf(<< <<"$fields", <<"number", "locationCode", "outstandingQuantity">> >>,
                  <<"$filters", <<"outstandingQuantity ne 0">> >> >>),
        <<"sku", "warehouse", "PO">>)

get_onhand(rem, slf, oh_table) ==
    fetch_lines(rem, slf, oh_table,
        DictOf(<< <<"$fields", <<"Item_No", "Location_Code", "Quantity">> >>,
                  <<"$filters", <<"Quantity ne 0">> >> >>),
        <<"sku", "warehouse", "OH">>)

get_sales(rem, slf, so_table) ==
    fetch_lines(rem, slf, so_table,
        DictOf(<< <<"$fields", <<"number", "locationCode", "outstandingQuantity">> >>,
                  <<"$filters", <<"outstandingQuantity ne 0">> >> >>),
        <<"sku", "warehouse", "SO">>)

get_warehouse_shipments(rem, slf, wship_table) ==
    fetch_lines(rem, slf, wship_table,
        DictOf(<< <<"$fields", <<"Item_No", "Location_Code", "Qty_Outstanding">> >>,
                  <<"$filters", <<"Qty_Outstanding ne 0">> >> >>),
        <<"sku", "warehouse", "WSHIP">>)

-----------------------------------------------------------------------------
(* get_ats *)

RECURSIVE append_all(_, _)
\* df.append([f1, f2, ...])
append_all(df, others) ==
    IF others = <<>> THEN df
    ELSE append_all(append(df, others[1]), Tail(others))

\* .fillna(0): every NaN cell becomes 0 (written "0" under a text label)
fillna0(df) ==
    [df EXCEPT !.rows =
        [i \in 1..Len(df.rows) |->
            [c \in Range(df.columns) |->
                IF c \in DOMAIN df.rows[i] THEN df.rows[i][c]
                ELSE IF c \in NumericLabels THEN 0 ELSE "0"]]]

\* ats[ats['warehouse'].isin(warehouses)]
isin_warehouses(df, warehouses) ==
    [df EXCEPT !.rows = SelectSeq(df.rows, LAMBDA row : row["warehouse"] \in Range(warehouses))]

RECURSIVE SumOf(_, _)
\* the sum of column c over the rows
SumOf(rows, c) ==
    IF rows = <<>> THEN 0 ELSE rows[1][c] + SumOf(Tail(rows), c)

RECURSIVE FirstSeen(_, _)
\* the distinct key pairs of the rows, in the order they first appear
FirstSeen(rows, seen) ==
    IF rows = <<>> THEN seen
    ELSE LET k == <<rows[1]["warehouse"], rows[1]["sku"]>>
         IN FirstSeen(Tail(rows), IF k \in Range(seen) THEN seen ELSE Append(seen, k))

\* ats.groupby(['warehouse', 'sku'], sort=False).sum()
groupby_sum(df) ==
    LET keys == FirstSeen(df.rows, <<>>)
        values == SelectSeq(df.columns, LAMBDA c : c \notin {"warehouse", "sku"})
    IN [columns |-> values,
        index |-> <<"warehouse", "sku">>,
        rows |-> [i \in 1..Len(keys) |->
            LET group == SelectSeq(df.rows,
                            LAMBDA row : <<row["warehouse"], row["sku"]>> = keys[i])
            IN [c \in Range(values) \cup {"warehouse", "sku"} |->
                   IF c = "warehouse" THEN keys[i][1]
                   ELSE IF c = "sku" THEN keys[i][2]
                   ELSE SumOf(group, c)]]]

\* np.maximum in the place of np.minimum
Maximum(a, b) == IF a >= b THEN a ELSE b

\* np.minimum
Minimum(a, b) == IF a <= b THEN a ELSE b

\* ats['OH'] -= ats['WSHIP']; ats['SO'] -= ats['WSHIP']
\* ats['ATSell'] = ats['PO'] + ats['OH'] - ats['SO']
\* ats['ATShip'] = np.minimum(ats['ATSell'], ats['OH'])
derive_metrics(df) ==
    [columns |-> df.columns \o <<"ATSell", "ATShip">>,
     index |-> df.index,
     rows |-> [i \in 1..Len(df.rows) |->
        LET row == df.rows[i]
            oh == row["OH"] - row["WSHIP"]
            so == row["SO"] - row["WSHIP"]
            atsell == row["PO"] + oh - so
            atship == Minimum(atsell, oh)
        IN [c \in DOMAIN row \cup {"ATSell", "ATShip"} |->
               CASE c = "OH" -> oh
                 [] c = "SO" -> so
                 [] c = "ATSell" -> atsell
                 [] c = "ATShip" -> atship
                 [] OTHER -> row[c]]]]

\* ats.reset_index().pivot_table(index='sku', columns='warehouse',
\*                               aggfunc='sum', fill_value=0)
\* one row per sku, one column per (value column, warehouse) pair; a pair with
\* no line holds 0.  The rows are kept as a mapping from the sku: the sorted
\* order pivot_table gives rows and columns is not modelled
pivot_table(df) ==
    LET values == SelectSeq(df.columns, LAMBDA c : c \notin {"warehouse", "sku"})
        found == {row["warehouse"] : row \in Range(df.rows)}
        skus == {row["sku"] : row \in Range(df.rows)}
    IN [columns |-> {<<m, w>> : m \in Range(values), w \in found},
        skus |-> skus,
        cell |-> [s \in skus |->
            [col \in {<<m, w>> : m \in Range(values), w \in found} |->
                SumOf(SelectSeq(df.rows,
                        LAMBDA row : row["sku"] = s /\ row["warehouse"] = col[2]),
                      col[1])]]]

Metrics == <<"PO", "OH", "SO", "ATShip", "ATSell">>

RECURSIVE columns_to_keep(_)
\* [(b, a) for a in warehouses for b in ['PO', 'OH', 'SO', 'ATShip', 'ATSell']]
columns_to_keep(warehouses) ==
    IF warehouses = <<>> THEN <<>>
    ELSE [j \in 1..Len(Metrics) |-> <<Metrics[j], warehouses[1]>>]
         \o columns_to_keep(Tail(warehouses))

\* ats[columns_to_keep]: a pair that is no column of the pivot raises KeyError
select_columns(pivot, keep) ==
    IF \E j \in 1..Len(keep) : keep[j] \notin pivot.columns
    THEN [exc |-> KeyError("not in index"), report |-> NoReport]
    ELSE [exc |-> NoExc,
          report |-> [columns |-> keep,
                      skus |-> pivot.skus,
                      cell |-> [s \in pivot.skus |->
                                  [col \in Range(keep) |-> pivot.cell[s][col]]]]]

Reported(report) == [status |-> "return", frame |-> EmptyFrame, report |-> report, exc |-> NoExc]

\* the frame get_ats holds before the pivot (lines 102 to 109)
ats_rows(onhand, purchases, sales, w_shipments, warehouses) ==
    With(append_all(onhand, <<purchases, sales, w_shipments>>), LAMBDA joined :
    With(fillna0(joined), LAMBDA merged :
    With(IF warehouses # None THEN isin_warehouses(merged, The(warehouses))
         ELSE merged, LAMBDA kept :
    With(groupby_sum(kept), LAMBDA summed : derive_metrics(summed)))))

\* BcWrapper.get_ats(warehouses, po_table, oh_table, so_table, wship_table):
\* the outcome, the HTTP trace, and the warehouses list as the call leaves it
get_ats(rem, slf, warehouses, po_table, oh_table, so_table, wship_table) ==
    With(get_purchases(rem, slf, po_table), LAMBDA purchases :
    IF purchases.out.status = "raise"
    THEN [out |-> purchases.out, trace |-> purchases.trace, warehouses |-> warehouses]
    ELSE
    With(get_onhand(rem, slf, oh_table), LAMBDA onhand :
    IF onhand.out.status = "raise"
    THEN [out |-> onhand.out, trace |-> purchases.trace \o onhand.trace,
          warehouses |-> warehouses]
    ELSE
    With(get_sales(rem, slf, so_table), LAMBDA sales :
    IF sales.out.status = "raise"
    THEN [out |-> sales.out,
          trace |-> purchases.trace \o onhand.trace \o sales.trace,
          warehouses |-> warehouses]
    ELSE
    With(get_warehouse_shipments(rem, slf, wship_table), LAMBDA w_shipments :
    With(purchases.trace \o onhand.trace \o sales.trace \o w_shipments.trace, LAMBDA tr :
    IF w_shipments.out.status = "raise"
    THEN [out |-> w_shipments.out, trace |-> tr, warehouses |-> warehouses]
    ELSE
    With(<<onhand.out.frame, purchases.out.frame, sales.out.frame,
           w_shipments.out.frame>>, LAMBDA frames :
    With(ats_rows(frames[1], frames[2], frames[3], frames[4], warehouses), LAMBDA ats :
    With(pivot_table(ats), LAMBDA pivot :
    IF warehouses = None
    THEN [out |-> Raised(TypeError("'NoneType' object is not iterable")),
          trace |-> tr, warehouses |-> warehouses]
    ELSE
    With(columns_to_keep(The(warehouses)), LAMBDA keep :
    With(select_columns(pivot, keep), LAMBDA picked :
    IF picked.exc # NoExc
    THEN [out |-> Raised(picked.exc), trace |-> tr, warehouses |-> warehouses]
    ELSE [out |-> Reported(picked.report), trace |-> tr,
          warehouses |-> warehouses]))))))))))

-----------------------------------------------------------------------------
(* The data the service holds *)

po_table == "purchaseDocumentLines"
oh_table == "ItemLedgerEntries"
so_table == "salesDocumentLines"
wship_table == "WarehouseShipmentsLines"

\* item ledger entries a page may carry
Records == {[Item_No |-> "A", Location_Code |-> "W1", Quantity |-> 1],
            [Item_No |-> "A", Location_Code |-> "", Quantity |-> 2]}

ErrorBody == [error |-> [code |-> "BadRequest", message |-> "Invalid filter clause"]]

RecordLists == UNION {[1..n -> Records] : n \in 0..MaxRecs}

\* a page body is a result set or an error report
PageBodies == {[value |-> recs] : recs \in RecordLists} \cup {ErrorBody}

Chains == UNION {[1..n -> PageBodies] : n \in 1..MaxPages}

EmptyTable == <<[value |-> <<>>]>>

\* (sku, warehouse, quantity) of the lines the four tables may hold
Lines == {<<"A", "W1", 1>>, <<"B", "W2", 2>>}

Tables == <<po_table, oh_table, so_table, wship_table>>

\* a line as the entity of its table
EntityOf(t, line) ==
    CASE t = 1 -> [number |-> line[1], locationCode |-> line[2], outstandingQuantity |-> line[3]]
      [] t = 2 -> [Item_No |-> line[1], Location_Code |-> line[2], Quantity |-> line[3]]
      [] t = 3 -> [number |-> line[1], locationCode |-> line[2], outstandingQuantity |-> line[3]]
      [] t = 4 -> [Item_No |-> line[1], Location_Code |-> line[2], Qty_Outstanding |-> line[3]]

\* at most MaxLines lines over the four tables, listed table by table
Stocks == UNION {{s \in [1..n -> (1..4) \X Lines] :
                    \A i \in 1..(n - 1) : s[i][1] <= s[i + 1][1]} : n \in 0..MaxLines}

\* one page per table, holding the table's lines in order
RemoteOf(stock) ==
    [name \in Range(Tables) |->
        LET t == CHOOSE t \in 1..4 : Tables[t] = name
            mine == SelectSeq(stock, LAMBDA l : l[1] = t)
        IN <<[value |-> [i \in 1..Len(mine) |-> EntityOf(t, mine[i][2])]]>>]

-----------------------------------------------------------------------------
(* The calls *)

OptionChoices ==
    {None,
     Some(DictOf(<< <<"$fields", <<"Quantity", "Location_Code">> >>,
                    <<"$filters", <<"Quantity ne 0">> >> >>))}

IndexChoices == {None, Some(<<"Item_No">>), Some(<<"Item_No", "Location_Code">>)}

WarehouseChoices == {None, Some(<<"W1">>), Some(<<"W1", "W2">>), Some(<<"W2", "W1">>)}

NoCall == [op |-> "none", table |-> "", options |-> None, table_index |-> None,
           warehouses |-> None]

InitCommon ==
    /\ self = Wrapper
    /\ defaultOptions = EmptyDict
    /\ used = FALSE
    /\ call = NoCall
    /\ after = [options |-> EmptyDict, warehouses |-> None]
    /\ trace = <<>>
    /\ data = EmptyFrame
    /\ result = Raised(NoExc)

\* one paged table
Init ==
    /\ \E chain \in Chains :
           remote = [name \in Range(Tables) |->
                        IF name = oh_table THEN chain ELSE EmptyTable]
    /\ InitCommon

\* four one-page tables of lines
InitAts ==
    /\ \E stock \in Stocks : remote = RemoteOf(stock)
    /\ InitCommon

\* a call of get_table; options left out means the shared default mapping
GetTable ==
    \E options \in OptionChoices, table_index \in IndexChoices :
        \E r \in {get_table(remote, self, oh_table,
                            IF options = None THEN defaultOptions ELSE The(options),
                            table_index)} :
           /\ call' = [op |-> "get_table", table |-> oh_table, options |-> options,
                       table_index |-> table_index, warehouses |-> None]
           /\ defaultOptions' = IF options = None THEN r.options ELSE defaultOptions
           /\ after' = [options |-> r.options, warehouses |-> None]
           /\ trace' = r.trace
           /\ data' = r.data
           /\ result' = r.out
           /\ used' = (call.op # "none")
           /\ UNCHANGED <<remote, self>>

\* a call of get_ats with the default table names
GetAts ==
    \E warehouses \in WarehouseChoices :
        \E r \in {get_ats(remote, self, warehouses,
                          po_table, oh_table, so_table, wship_table)} :
           /\ call' = [op |-> "get_ats", table |-> "", options |-> None,
                       table_index |-> None, warehouses |-> warehouses]
           /\ after' = [options |-> EmptyDict, warehouses |-> r.warehouses]
           /\ trace' = r.trace
           /\ data' = EmptyFrame
           /\ result' = r.out
           /\ used' = (call.op # "none")
           /\ UNCHANGED <<remote, self, defaultOptions>>

Next == GetTable \/ GetAts

Spec == Init /\ [][Next]_vars

SpecAts == InitAts /\ [][Next]_vars

-----------------------------------------------------------------------------
(* What the claims speak about *)

\* the chain of pages the service holds for the table of the last call
Chain == remote[call.table]

WellFormed(chain) == \A i \in 1..Len(chain) : "value" \in DOMAIN chain[i]

RECURSIVE AllRecords(_)
\* the records of p1, then p2, ..., then pn
AllRecords(chain) ==
    IF chain = <<>> THEN <<>>
    ELSE AllRecords(SubSeq(chain, 1, Len(chain) - 1)) \o chain[Len(chain)]["value"]

\* the k-th request and the k-th response of the last call
NumRequests == Cardinality({i \in 1..Len(trace) : trace[i].kind = "request"})
RequestNo(k) == trace[2 * k - 1].payload
ResponseNo(k) == trace[2 * k].payload

\* the options mapping get_table worked on
OptionsUsed == IF call.options = None THEN EmptyDict ELSE The(call.options)

IsBlank(label, value) == label \notin NumericLabels /\ value = ""

\* a row of a returned frame holds the record's values under the labels the
\* frame keeps (an empty text is NaN there), and nothing else
RowIs(row, record, labels) ==
    /\ DOMAIN row \subseteq labels
    /\ \A c \in labels \cap DOMAIN record :
          IF IsBlank(c, record[c]) THEN c \notin DOMAIN row
          ELSE c \in DOMAIN row /\ row[c] = record[c]

LabelsOf(frame) == Range(frame.columns) \cup Range(frame.index)

\* the error the service reported in a page body, as get_table raises it
RemoteServiceError(body) ==
    [type |-> "Exception",
     args |-> <<body["error"]["code"] \o "\t" \o body["error"]["message"]>>]

-----------------------------------------------------------------------------
(* C1 *)

\* C1: on a chain of well-formed pages p1..pn, get_table leaves the page loop
\* holding exactly the records of p1, then p2, ..., then pn, after one request
\* per page, and the frame it returns has one row per record, in that order,
\* with the record's values; a call without an index always returns.
C1_AllPagesInOrder ==
    (call.op = "get_table" /\ WellFormed(Chain)) =>
        /\ data.rows = AllRecords(Chain)
        /\ NumRequests = Len(Chain)
        /\ call.table_index = None => result.status = "return"
        /\ result.status = "return" =>
              /\ Len(result.frame.rows) = Len(AllRecords(Chain))
              /\ \A k \in 1..Len(result.frame.rows) :
                    RowIs(result.frame.rows[k], AllRecords(Chain)[k],
                          LabelsOf(result.frame))

\* a call that returned the records of a chain of two or more pages, two of
\* them different
C1_Witness ==
    /\ call.op = "get_table"
    /\ WellFormed(Chain)
    /\ Len(Chain) >= 2
    /\ result.status = "return"
    /\ Len(result.frame.rows) >= 2
    /\ result.frame.rows[1] # result.frame.rows[2]

-----------------------------------------------------------------------------
(* C2 *)

\* C2: when the first response lacks 'value', get_table raises the error the
\* service reported (code, tab, message), returns no records, and has made the
\* one request only, also when that response carries a next-page cursor.
C2_FirstPageError ==
    (call.op = "get_table" /\ "value" \notin DOMAIN Chain[1]) =>
        /\ result = Raised(RemoteServiceError(Chain[1]))
        /\ data.rows = <<>>
        /\ NumRequests = 1
        /\ Len(trace) = 2

\* the first response is an error report that carries a cursor
C2_Witness ==
    /\ call.op = "get_table"
    /\ "value" \notin DOMAIN Chain[1]
    /\ has_more_pages(ResponseNo(1))
    /\ result.status = "raise"

-----------------------------------------------------------------------------
(* C3 *)

\* the first page of the chain without 'value', when it is a continuation page
\* that the call reaches
FirstBadPage ==
    CHOOSE j \in 1..Len(Chain) :
        "value" \notin DOMAIN Chain[j] /\ \A i \in 1..(j - 1) : "value" \in DOMAIN Chain[i]

\* C3: when a continuation page lacks 'value', get_table raises the same kind
\* of error as for a first page, carrying the code and message the service
\* reported, returns no records and requests no further page.
C3_ContinuationPageError ==
    (call.op = "get_table" /\ ~WellFormed(Chain) /\ FirstBadPage > 1) =>
        /\ result = Raised(RemoteServiceError(Chain[FirstBadPage]))
        /\ NumRequests = FirstBadPage

-----------------------------------------------------------------------------
(* C10 *)

\* C10: the requests of a get_table call form one sequential chain: every
\* request is answered before the next is made; the first goes to the table
\* URL with the caller's options as parameters; request k+1 exists only if
\* response k carries a cursor, goes to exactly that cursor with the same
\* credentials and headers and no parameters; no address is requested twice;
\* a response without a cursor is the last.
C10_RequestChain ==
    call.op = "get_table" =>
        /\ Len(trace) = 2 * NumRequests
        /\ NumRequests >= 1
        /\ \A k \in 1..NumRequests :
              /\ trace[2 * k - 1].kind = "request"
              /\ trace[2 * k].kind = "response"
        /\ RequestNo(1) = Request(self.url \o call.table, self.auth, ODATA_HEADER,
                                  Some(OptionsUsed))
        /\ \A k \in 1..(NumRequests - 1) :
              /\ has_more_pages(ResponseNo(k))
              /\ RequestNo(k + 1).url = ResponseNo(k)["@odata.nextLink"]
              /\ RequestNo(k + 1).auth = RequestNo(1).auth
              /\ RequestNo(k + 1).headers = RequestNo(1).headers
              /\ RequestNo(k + 1).params = None
        /\ \A j, k \in 1..NumRequests : RequestNo(j).url = RequestNo(k).url => j = k
        /\ \A k \in 1..NumRequests : ~has_more_pages(ResponseNo(k)) => k = NumRequests

\* a call that followed a cursor
C10_Witness ==
    /\ call.op = "get_table"
    /\ NumRequests >= 2
    /\ RequestNo(2).url = ResponseNo(1)["@odata.nextLink"]

-----------------------------------------------------------------------------
(* C7 *)

\* C7: when a field projection is requested, the result of get_table has
\* exactly the requested fields as columns, in the requested order, whatever
\* was fetched and whether or not an index is given; nothing fetched gives an
\* empty frame with those columns.
C7_FieldsProjection ==
    (call.op = "get_table" /\ "$fields" \in DOMAIN OptionsUsed /\ WellFormed(Chain)) =>
        /\ result.status = "return"
        /\ result.frame.columns = OptionsUsed["$fields"]
        /\ Len(result.frame.rows) = Len(AllRecords(Chain))

-----------------------------------------------------------------------------
(* C8 *)

\* the key combination of a fetched record, as the keyed frame holds it
KeyOf(record, keys) ==
    [i \in 1..Len(keys) |->
        IF keys[i] \in DOMAIN record /\ ~IsBlank(keys[i], record[keys[i]])
        THEN record[keys[i]] ELSE "NaN"]

SharedKey(records, keys) ==
    \E i, j \in 1..Len(records) :
        i < j /\ KeyOf(records[i], keys) = KeyOf(records[j], keys)

\* the position of the record fetched last among those with the key of record i
LastWith(records, keys, i) ==
    CHOOSE j \in 1..Len(records) :
        /\ KeyOf(records[j], keys) = KeyOf(records[i], keys)
        /\ \A k \in (j + 1)..Len(records) :
              KeyOf(records[k], keys) # KeyOf(records[i], keys)

\* C8 as stated: with an index, records that share a key leave one entry for
\* the key, the record fetched last, and no error is raised.
C8_LastWins ==
    (/\ call.op = "get_table"
     /\ call.table_index # None
     /\ "$fields" \notin DOMAIN OptionsUsed
     /\ WellFormed(Chain)
     /\ SharedKey(AllRecords(Chain), The(call.table_index))) =>
        LET keys == The(call.table_index)
            records == AllRecords(Chain)
        IN /\ result.status = "return"
           /\ \A i \in 1..Len(records) :
                 \E k \in 1..Len(result.frame.rows) :
                    /\ KeyOf(result.frame.rows[k], keys) = KeyOf(records[i], keys)
                    /\ RowIs(result.frame.rows[k],
                             records[LastWith(records, keys, i)],
                             LabelsOf(result.frame))
                    /\ \A m \in 1..Len(result.frame.rows) :
                          KeyOf(result.frame.rows[m], keys) = KeyOf(records[i], keys)
                              => m = k

\* C8, amended: with an index, records that share a key are all kept under
\* it, in the order fetched: the keyed frame has one row per fetched record.
\* The shared key raises no error; the call raises only when the projection
\* that follows asks for a field that has become part of the index.
C8_DuplicatesKept ==
    (/\ call.op = "get_table"
     /\ call.table_index # None
     /\ WellFormed(Chain)
     /\ SharedKey(AllRecords(Chain), The(call.table_index))) =>
        /\ result.status = "return" =>
              /\ result.frame.index = The(call.table_index)
              /\ Len(result.frame.rows) = Len(AllRecords(Chain))
              /\ \A k \in 1..Len(result.frame.rows) :
                    RowIs(result.frame.rows[k], AllRecords(Chain)[k],
                          LabelsOf(result.frame))
        /\ result.status = "raise" =>
              /\ "$fields" \in DOMAIN OptionsUsed
              /\ Range(OptionsUsed["$fields"]) \cap Range(The(call.table_index)) # {}
              /\ result.exc = KeyError("not in index")
        /\ "$fields" \notin DOMAIN OptionsUsed => result.status = "return"

\* a keyed frame returned with two different rows under one key
C8_Witness ==
    /\ call.op = "get_table"
    /\ call.table_index # None
    /\ result.status = "return"
    /\ \E i, j \in 1..Len(result.frame.rows) :
          /\ i < j
          /\ result.frame.rows[i] # result.frame.rows[j]
          /\ KeyOf(result.frame.rows[i], The(call.table_index))
                = KeyOf(result.frame.rows[j], The(call.table_index))

-----------------------------------------------------------------------------
(* The lines get_ats merges *)

SkuField(t) == IF t \in {1, 3} THEN "number" ELSE "Item_No"
WarehouseField(t) == IF t \in {1, 3} THEN "locationCode" ELSE "Location_Code"
QuantityField(t) ==
    CASE t \in {1, 3} -> "outstandingQuantity"
      [] t = 2 -> "Quantity"
      [] t = 4 -> "Qty_Outstanding"

\* an empty text is NaN after the fetch and 0 after the fill
KeyText(v) == IF v = "" THEN "0" ELSE v

AllFetched == \A t \in 1..4 : WellFormed(remote[Tables[t]])

EntitiesOf(t) == AllRecords(remote[Tables[t]])

RECURSIVE Total(_, _, _, _)
\* the quantity table t holds for (warehouse w, sku s), over the given entities
Total(t, entities, w, s) ==
    IF entities = <<>> THEN 0
    ELSE (IF /\ KeyText(entities[1][WarehouseField(t)]) = w
             /\ KeyText(entities[1][SkuField(t)]) = s
          THEN entities[1][QuantityField(t)] ELSE 0)
         + Total(t, Tail(entities), w, s)

Quantity(t, w, s) == Total(t, EntitiesOf(t), w, s)

KeyPresent(w, s) ==
    \E t \in 1..4 : \E i \in 1..Len(EntitiesOf(t)) :
        /\ KeyText(EntitiesOf(t)[i][WarehouseField(t)]) = w
        /\ KeyText(EntitiesOf(t)[i][SkuField(t)]) = s

SkusInData ==
    UNION {{KeyText(EntitiesOf(t)[i][SkuField(t)]) : i \in 1..Len(EntitiesOf(t))} :
              t \in 1..4}

WarehousesInData ==
    UNION {{KeyText(EntitiesOf(t)[i][WarehouseField(t)]) : i \in 1..Len(EntitiesOf(t))} :
              t \in 1..4}

-----------------------------------------------------------------------------
(* C4 *)

\* C4: in the report get_ats returns, for every (warehouse, sku) key of the
\* lines it merged and kept, with P, H, S, W the sums of the key's PO, OH, SO
\* and WSHIP quantities: PO = P, OH = H - W, SO = S - W, ATSell = PO + OH - SO
\* and ATShip = min(ATSell, OH), negative values included.
C4_Metrics ==
    (call.op = "get_ats" /\ result.status = "return") =>
        \A w \in Range(The(call.warehouses)), s \in SkusInData :
            KeyPresent(w, s) =>
                LET P == Quantity(1, w, s)
                    H == Quantity(2, w, s)
                    S == Quantity(3, w, s)
                    W == Quantity(4, w, s)
                    row == result.report.cell[s]
                IN /\ s \in result.report.skus
                   /\ row[<<"PO", w>>] = P
                   /\ row[<<"OH", w>>] = H - W
                   /\ row[<<"SO", w>>] = S - W
                   /\ row[<<"ATSell", w>>] = P + (H - W) - (S - W)
                   /\ row[<<"ATShip", w>>] =
                         (IF P + (H - W) - (S - W) <= H - W
                          THEN P + (H - W) - (S - W) ELSE H - W)

\* a report with a key that has lines in all four tables
C4_Witness ==
    /\ call.op = "get_ats"
    /\ result.status = "return"
    /\ \E w \in Range(The(call.warehouses)), s \in SkusInData :
          \A t \in 1..4 : Quantity(t, w, s) > 0

-----------------------------------------------------------------------------
(* C5 *)

\* the (metric, warehouse) pairs of the listed warehouses, warehouse by
\* warehouse, the five metrics in their order under each
ExpectedColumns(warehouses) ==
    [n \in 1..(Len(Metrics) * Len(warehouses)) |->
        <<Metrics[((n - 1) % Len(Metrics)) + 1],
          warehouses[((n - 1) \div Len(Metrics)) + 1]>>]

\* C5: with a warehouse list, whether or not each listed warehouse has a line
\* in the data, get_ats returns a report whose columns are exactly the
\* (metric, warehouse) pairs of the listed warehouses in list order, and a
\* (sku, metric, warehouse) combination without data holds 0.
C5_FilterColumns ==
    (call.op = "get_ats" /\ call.warehouses # None /\ AllFetched) =>
        /\ result.status = "return"
        /\ result.report.columns = ExpectedColumns(The(call.warehouses))
        /\ \A s \in result.report.skus, n \in 1..Len(result.report.columns) :
              ~KeyPresent(result.report.columns[n][2], s)
                  => result.report.cell[s][result.report.columns[n]] = 0

-----------------------------------------------------------------------------
(* C6 *)

\* C6: without a warehouse list get_ats returns a report that has the five
\* metrics for every warehouse of the data.
C6_NoFilter ==
    (call.op = "get_ats" /\ call.warehouses = None /\ AllFetched) =>
        /\ result.status = "return"
        /\ \A w \in WarehousesInData : \A j \in 1..Len(Metrics) :
              <<Metrics[j], w>> \in Range(result.report.columns)

-----------------------------------------------------------------------------
(* C9 *)

====
